---- MODULE Spec2Model ----
(***************************************************************************)
(* Model of the GoFast route optimisation service, src/ml_backend/main.py: *)
(* one request to POST /optimize_delivery_route/ carried from its arrival  *)
(* to its response.  The routing provider (Mapbox), the duration predictor *)
(* (DELIVERY_MODEL) and the solver (OR-Tools) are external: their answers  *)
(* are chosen nondeterministically, everything the handler does with the   *)
(* answers is translated from the source.                                  *)
(*                                                                         *)
(* Numbers.  Python floats are modelled exactly: a float that may be NaN   *)
(* or +inf is a record [k, v] (k = "num", "inf" or "nan"); a sanitised     *)
(* value is a plain integer; sums and products that exceed 32 bits are     *)
(* kept in limbs of base 10^9 (Big); a cost is an exact fraction of Bigs.  *)
(***************************************************************************)
EXTENDS Integers, Sequences, FiniteSets, TLC

(* ------------------------------ bounds -------------------------------- *)
\* at most this many orders in a request
MaxOrders == 1
\* coordinates are drawn from the locations 0..MaxLoc
MaxLoc == 2
\* a request weight is w / WeightDen for w in 0..WeightDen
WeightDen == 2
\* at most this many anomalous external answers (provider or predictor) per request
MaxFaults == 2
\* the small costs tried on the scaling alone are n / d, n in 0 .. MaxScaleNum and
\* d in 1 .. MaxScaleDen
MaxScaleNum == 7
MaxScaleDen == 7

(* ------------------------- program constants -------------------------- *)
\* main.py:337 and :339, the value a bad distance or duration is replaced by
SENTINEL == 1000000000
\* main.py:186
MAX_ORTOOLS_COST == 1000000000
\* main.py:168
INTEGER_SCALE_FACTOR == 1000

(* ------------------------- Python float values ------------------------ *)
Num(v) == [k |-> "num", v |-> v]
Inf == [k |-> "inf", v |-> 0]
NaN == [k |-> "nan", v |-> 0]

\* a < b on floats: false as soon as one side is NaN; +inf is above every number
Lt(a, b) ==
    /\ a.k = "num"
    /\ \/ b.k = "inf"
       \/ b.k = "num" /\ a.v < b.v

\* builtin min(a, b): the first argument unless the second is smaller
PyMin(a, b) == IF Lt(b, a) THEN b ELSE a

\* builtin max(a, b): the first argument unless the second is greater
PyMax(a, b) == IF Lt(a, b) THEN b ELSE a

\* max on sanitised (integer) values
IntMax(a, b) == IF b > a THEN b ELSE a

(* ------------------- exact arithmetic in base 10^9 -------------------- *)
\* <<c0, c1, c2, c3>> stands for c0 + c1 * 10^9 + c2 * 10^18 + c3 * 10^27
BigBase == SENTINEL
BigZero == <<0, 0, 0, 0>>
BigOne == <<1, 0, 0, 0>>
BigOf(v) == <<v % BigBase, v \div BigBase, 0, 0>>

BigNorm(c0, c1, c2, c3) ==
    LET d1 == c1 + c0 \div BigBase
        d2 == c2 + d1 \div BigBase
    IN  <<c0 % BigBase, d1 % BigBase, d2 % BigBase, c3 + d2 \div BigBase>>

BigAdd(a, b) == BigNorm(a[1] + b[1], a[2] + b[2], a[3] + b[3], a[4] + b[4])

\* the product, for operands whose product is below 10^36
BigMul(a, b) ==
    BigNorm(a[1] * b[1],
            a[1] * b[2] + a[2] * b[1],
            a[1] * b[3] + a[2] * b[2] + a[3] * b[1],
            a[1] * b[4] + a[2] * b[3] + a[3] * b[2] + a[4] * b[1])

BigScale(a, n) == BigMul(a, BigOf(n))

BigLt(a, b) ==
    \/ a[4] < b[4]
    \/ a[4] = b[4] /\ a[3] < b[3]
    \/ a[4] = b[4] /\ a[3] = b[3] /\ a[2] < b[2]
    \/ a[4] = b[4] /\ a[3] = b[3] /\ a[2] = b[2] /\ a[1] < b[1]

BigLeq(a, b) == a = b \/ BigLt(a, b)

\* the integer part of x / d, for d > 0: the q with q * d <= x < (q + 1) * d
RECURSIVE BigGrow(_, _, _)
BigGrow(x, d, hi) == IF BigLeq(BigScale(d, hi), x) THEN BigGrow(x, d, 2 * hi) ELSE hi

RECURSIVE BigBisect(_, _, _, _)
BigBisect(x, d, lo, hi) ==
    IF hi - lo <= 1 THEN lo
    ELSE LET mid == (lo + hi) \div 2
         IN  IF BigLeq(BigScale(d, mid), x) THEN BigBisect(x, d, mid, hi)
             ELSE BigBisect(x, d, lo, mid)

BigFloorDiv(x, d) == BigBisect(x, d, 0, BigGrow(x, d, 1))

(* ------------------------------ fractions ----------------------------- *)
Frac(n, d) == [num |-> BigOf(n), den |-> BigOf(d)]
FracMul(x, y) == [num |-> BigMul(x.num, y.num), den |-> BigMul(x.den, y.den)]
FracAdd(x, y) ==
    IF x.den = y.den THEN [num |-> BigAdd(x.num, y.num), den |-> x.den]
    ELSE [num |-> BigAdd(BigMul(x.num, y.den), BigMul(y.num, x.den)),
          den |-> BigMul(x.den, y.den)]
\* 0 <= x <= 1, for a fraction of non-negative parts
FracInUnit(x) == BigLt(BigZero, x.den) /\ BigLeq(BigZero, x.num) /\ BigLeq(x.num, x.den)
FracIsZero(x) == BigLt(BigZero, x.den) /\ x.num = BigZero
FracIsOne(x) == BigLt(BigZero, x.den) /\ x.num = x.den

(* ------------------------------ request ------------------------------- *)
Locs == 0 .. MaxLoc
Weights == 0 .. WeightDen

\* OptimizeRouteRequest: the orders' coordinates, the vehicle's, the warehouse's,
\* and the two weights (in units of 1 / WeightDen)
Requests ==
    [orders : UNION {[1 .. n -> Locs] : n \in 0 .. MaxOrders},
     current : Locs,
     warehouse : Locs,
     weight_time : Weights,
     weight_distance : Weights]

\* all_points_details, indexed from 0 as in the source
AllPointsDetails(req) ==
    [idx \in 0 .. Len(req.orders) + 1 |->
        IF idx = 0 THEN [type |-> "current_location", loc |-> req.current, id |-> 0]
        ELSE IF idx = Len(req.orders) + 1
             THEN [type |-> "warehouse", loc |-> req.warehouse, id |-> idx]
             ELSE [type |-> "order", loc |-> req.orders[idx], id |-> idx]]

NumPoints(req) == Len(req.orders) + 2

\* cache_key: the two coordinates, origin first
CacheKey(req, i, j) == <<AllPointsDetails(req)[i].loc, AllPointsDetails(req)[j].loc>>

(* ------------------------ external collaborators ---------------------- *)
abs(x) == IF x < 0 THEN -x ELSE x

\* what the provider reports between two coordinates when it answers normally
ProviderDistance(a, b) == IF a = b THEN 0 ELSE 3 * abs(a - b) + a
ProviderDuration(a, b) == IF a = b THEN 0 ELSE 2 + 2 * b + abs(a - b)
\* what the predictor returns for a pair when it answers normally
ModelPrediction(a, b) == 4 + a

\* get_mapbox_route_data's return value: None, or data['routes'][0]
MapboxNone == [route |-> FALSE, distance |-> Inf, duration |-> Inf]
MapboxRoute(a, b) ==
    [route |-> TRUE, distance |-> Num(ProviderDistance(a, b)),
     duration |-> Num(ProviderDuration(a, b))]
\* a route object whose numbers are unusable
MapboxMalformed == [route |-> TRUE, distance |-> Num(-1), duration |-> NaN]

\* the answers of one provider call, each with the number of anomalies it counts for
MapboxAnswers(a, b) ==
    {[data |-> MapboxRoute(a, b), faults |-> 0],
     [data |-> MapboxNone, faults |-> 1],
     [data |-> MapboxMalformed, faults |-> 1]}

\* DELIVERY_MODEL.predict(features_df)[0]: a value, or an exception
NoPrediction == [called |-> FALSE, raised |-> FALSE, value |-> NaN]
Predicted(x) == [called |-> TRUE, raised |-> FALSE, value |-> x]
PredictRaised == [called |-> TRUE, raised |-> TRUE, value |-> NaN]

PredictorAnswers(loaded, a, b) ==
    IF loaded
    THEN {[ml |-> Predicted(Num(ModelPrediction(a, b))), faults |-> 0],
          [ml |-> PredictRaised, faults |-> 1],
          [ml |-> Predicted(NaN), faults |-> 1],
          [ml |-> Predicted(Num(-1)), faults |-> 1]}
    ELSE {[ml |-> NoPrediction, faults |-> 0]}

(* ------------------------- estimate collection ------------------------ *)
\* main.py:306-307: mapbox_data.get(field, inf) if mapbox_data else inf
ShippingDistance(mapbox_data) == IF mapbox_data.route THEN mapbox_data.distance ELSE Inf
MapboxDuration(mapbox_data) == IF mapbox_data.route THEN mapbox_data.duration ELSE Inf

\* the resolution without the clamp max(0.0, .)
PredictedDurationUnclamped(mapbox_duration, ml) ==
    IF ~ml.called THEN mapbox_duration
    ELSE IF ml.raised THEN mapbox_duration
    ELSE PyMin(ml.value, mapbox_duration)

\* main.py:309-332: the duration before sanitisation
PredictedDuration(mapbox_duration, ml) ==
    IF ~ml.called THEN mapbox_duration
    ELSE IF ml.raised THEN mapbox_duration
    ELSE PyMax(Num(0), PyMin(ml.value, mapbox_duration))

\* the sanitisation without its test for negative values
SanitizeKeepsNegative(x) ==
    IF x.k = "inf" \/ x.k = "nan" THEN SENTINEL ELSE x.v

\* main.py:336-339: x == inf or isnan(x) or x < 0 is replaced by the sentinel
Sanitize(x) ==
    IF x.k = "inf" \/ x.k = "nan" \/ Lt(x, Num(0)) THEN SENTINEL ELSE x.v

\* main.py:341-345: the cache entry of one pair
SegmentData(mapbox_data, ml) ==
    [distance |-> Sanitize(ShippingDistance(mapbox_data)),
     duration |-> Sanitize(PredictedDuration(MapboxDuration(mapbox_data), ml))]

\* main.py:294-297: the loop over i, j with i == j skipped; a position is i * n + j
RECURSIVE NextPos(_, _)
NextPos(n, pos) ==
    IF pos + 1 >= n * n THEN n * n
    ELSE IF (pos + 1) \div n = (pos + 1) % n THEN NextPos(n, pos + 1)
    ELSE pos + 1

OrderedPairs(n) == {p \in (0 .. n - 1) \X (0 .. n - 1) : p[1] # p[2]}

(* ------------------------------- state -------------------------------- *)
VARIABLES
    pc,                 \* where the handler is: "start", "collect", "build", "solve", "assemble", "done"
    request,            \* the OptimizeRouteRequest
    model_loaded,       \* DELIVERY_MODEL is not None
    pos,                \* the position of the collection loop
    all_segments_data_cache,
    max_duration_for_normalization,
    max_distance_for_normalization,
    weights,            \* normalized_weight_time, normalized_weight_distance, as fractions over total_weights
    cost_matrix,
    scaled_cost_matrix,
    ortools_result,
    response,           \* the HTTP outcome
    calls,              \* history: the calls made to the collaborators
    last,               \* history: the latest collection step
    faults              \* anomalous external answers so far

vars == <<pc, request, model_loaded, pos, all_segments_data_cache,
          max_duration_for_normalization, max_distance_for_normalization, weights,
          cost_matrix, scaled_cost_matrix, ortools_result, response, calls, last, faults>>

NoResponse ==
    [status |-> 0, optimized_route |-> <<>>, total_predicted_time_seconds |-> BigZero,
     total_distance_meters |-> BigZero, has_segments |-> FALSE, segments_details |-> <<>>,
     full_route_geometry |-> FALSE, full_route_legs |-> FALSE]

NoCalls ==
    [mapbox |-> <<>>, predictor |-> 0, solver |-> 0, geometry |-> 0, failed |-> {},
     geometry_failed |-> FALSE]

NoLast == [i |-> -1, j |-> -1, mapbox_data |-> MapboxNone, ml |-> NoPrediction, before |-> <<>>]

Init ==
    /\ pc = "start"
    /\ request \in Requests
    /\ model_loaded \in BOOLEAN
    /\ pos = 0
    /\ all_segments_data_cache = <<>>
    /\ max_duration_for_normalization = 0
    /\ max_distance_for_normalization = 0
    /\ weights = [time |-> 0, distance |-> 0, total |-> 0]
    /\ cost_matrix = <<>>
    /\ scaled_cost_matrix = <<>>
    /\ ortools_result = [found |-> FALSE, route_indices |-> <<>>, total_cost |-> BigZero]
    /\ response = NoResponse
    /\ calls = NoCalls
    /\ last = NoLast
    /\ faults = 0

(* --------------------- 7.1 the request is taken in -------------------- *)
\* main.py:258
DirectReturn(num_points) == num_points <= 1

\* the weight test against the wrong sign
WeightsRejectedNegative(total_weights) == total_weights < 0

\* main.py:273
WeightsRejected(total_weights) == total_weights = 0

\* main.py:277-278: a weight divided by total_weights
NormalizedWeight(w, total_weights) == Frac(w, total_weights)

\* main.py:259-265
DirectResponse(req) ==
    [NoResponse EXCEPT
        !.status = 200,
        !.optimized_route =
            <<[type |-> "current_location", id |-> -1, loc |-> req.current],
              [type |-> "warehouse", id |-> -1, loc |-> req.warehouse]>>]

\* main.py:243-279
Start ==
    /\ pc = "start"
    /\ LET num_points == NumPoints(request)
           total_weights == request.weight_time + request.weight_distance
       IN  IF DirectReturn(num_points)
           THEN /\ response' = DirectResponse(request)
                /\ pc' = "done"
                /\ UNCHANGED <<weights, pos>>
           ELSE IF WeightsRejected(total_weights)
           THEN /\ response' = [NoResponse EXCEPT !.status = 400]
                /\ pc' = "done"
                /\ UNCHANGED <<weights, pos>>
           ELSE /\ weights' =
                      [time |-> NormalizedWeight(request.weight_time, total_weights),
                       distance |-> NormalizedWeight(request.weight_distance, total_weights),
                       total |-> total_weights]
                /\ pos' = NextPos(num_points, -1)
                /\ pc' = IF NextPos(num_points, -1) >= num_points * num_points
                         THEN "build" ELSE "collect"
                /\ UNCHANGED response
    /\ UNCHANGED <<request, model_loaded, all_segments_data_cache,
                   max_duration_for_normalization, max_distance_for_normalization,
                   cost_matrix, scaled_cost_matrix, ortools_result, calls, last, faults>>

(* ------------------- 7.2 pass 1: one pair is collected ----------------- *)
\* the cache replaced by the new entry instead of extended
CacheStoreFresh(cache, key, entry) == (key :> entry)

\* main.py:341: all_segments_data_cache[cache_key] = {...}
CacheStore(cache, key, entry) == (key :> entry) @@ cache

\* history: one more provider call for the pair, one more predictor call if it was made
Called(c, pair, mapbox_data, ml) ==
    [c EXCEPT
        !.mapbox = Append(@, pair),
        !.predictor = @ + (IF ml.called THEN 1 ELSE 0),
        !.failed = IF mapbox_data.route THEN @ ELSE @ \cup {pair}]

\* main.py:294-348, one iteration with i # j, with at most budget anomalies of the
\* provider and the predictor over the request
CollectWithin(budget) ==
    /\ pc = "collect"
    /\ LET n == NumPoints(request)
           i == pos \div n
           j == pos % n
           a == AllPointsDetails(request)[i].loc
           b == AllPointsDetails(request)[j].loc
       IN  \E m \in MapboxAnswers(a, b), p \in PredictorAnswers(model_loaded, a, b) :
              /\ faults + m.faults + p.faults <= budget
              /\ LET entry == SegmentData(m.data, p.ml)
                 IN  /\ all_segments_data_cache' =
                            CacheStore(all_segments_data_cache, CacheKey(request, i, j), entry)
                     /\ max_duration_for_normalization' =
                            IntMax(max_duration_for_normalization, entry.duration)
                     /\ max_distance_for_normalization' =
                            IntMax(max_distance_for_normalization, entry.distance)
              /\ calls' = Called(calls, <<i, j>>, m.data, p.ml)
              /\ last' = [i |-> i, j |-> j, mapbox_data |-> m.data, ml |-> p.ml,
                          before |-> all_segments_data_cache]
              /\ faults' = faults + m.faults + p.faults
              /\ pos' = NextPos(n, pos)
              /\ pc' = IF NextPos(n, pos) >= n * n THEN "build" ELSE "collect"
    /\ UNCHANGED <<request, model_loaded, weights, cost_matrix, scaled_cost_matrix,
                   ortools_result, response>>

\* main.py:294-348
Collect == CollectWithin(MaxFaults)

\* main.py:294-348, the provider and the predictor answering as expected
CollectNominal == CollectWithin(0)

(* ------------------- 7.2 pass 2: the cost matrix ----------------------- *)
\* the maxima left as they are
FloorAtOneMissing(m) == m

\* main.py:351-352: max(1.0, m)
FloorAtOne(m) == IntMax(1, m)

\* a cost is a float: a fraction, or +inf
CostZero == [k |-> "num", num |-> BigZero, den |-> BigOne]
CostInf == [k |-> "inf", num |-> BigZero, den |-> BigOne]

\* main.py:374-375
Normalized(value, max_for_normalization) == Frac(value, max_for_normalization)

\* main.py:378-379
CombinedCost(w, normalized_duration, normalized_distance) ==
    LET c == FracAdd(FracMul(w.time, normalized_duration),
                     FracMul(w.distance, normalized_distance))
    IN  [k |-> "num", num |-> c.num, den |-> c.den]

\* main.py:360-385: one entry of the matrix
CostEntry(req, cache, w, max_distance, max_duration, i, j) ==
    IF i = j THEN CostZero
    ELSE IF CacheKey(req, i, j) \in DOMAIN cache
    THEN LET segment_data == cache[CacheKey(req, i, j)]
         IN  CombinedCost(w, Normalized(segment_data.duration, max_duration),
                          Normalized(segment_data.distance, max_distance))
    ELSE CostInf

\* main.py:351-385
BuildMatrix ==
    /\ pc = "build"
    /\ max_duration_for_normalization' = FloorAtOne(max_duration_for_normalization)
    /\ max_distance_for_normalization' = FloorAtOne(max_distance_for_normalization)
    /\ cost_matrix' =
          [p \in (0 .. NumPoints(request) - 1) \X (0 .. NumPoints(request) - 1) |->
              CostEntry(request, all_segments_data_cache, weights,
                        FloorAtOne(max_distance_for_normalization),
                        FloorAtOne(max_duration_for_normalization), p[1], p[2])]
    /\ pc' = "solve"
    /\ UNCHANGED <<request, model_loaded, pos, all_segments_data_cache, weights,
                   scaled_cost_matrix, ortools_result, response, calls, last, faults>>

(* ----------------------- 7.3 the solver is called ---------------------- *)
\* the cost clamped and truncated without the scale factor
ScaledCostUnscaled(cost) ==
    IF cost.k = "inf" THEN MAX_ORTOOLS_COST
    ELSE IF BigLt(cost.num, BigScale(cost.den, MAX_ORTOOLS_COST))
         THEN BigFloorDiv(cost.num, cost.den)
         ELSE MAX_ORTOOLS_COST

\* main.py:187: int(min(MAX_ORTOOLS_COST, cost * INTEGER_SCALE_FACTOR)), or the bound for +inf
ScaledCost(cost) ==
    IF cost.k = "inf" THEN MAX_ORTOOLS_COST
    ELSE LET scaled == BigScale(cost.num, INTEGER_SCALE_FACTOR)
             bound == BigScale(cost.den, MAX_ORTOOLS_COST)
         IN  IF BigLt(scaled, bound) THEN BigFloorDiv(scaled, cost.den)
             ELSE MAX_ORTOOLS_COST

\* what routing.SolveWithParameters may give for n nodes, one vehicle, the start and
\* end depots pinned: an order visiting every node once, from start to end
SolverSolutions(n, start_depot_index, end_depot_index) ==
    {s \in [1 .. n -> 0 .. n - 1] :
        /\ s[1] = start_depot_index
        /\ s[n] = end_depot_index
        /\ \A x, y \in 1 .. n : x # y => s[x] # s[y]}

\* the float sum of the costs along the route (main.py:216-224)
RECURSIVE TotalCost(_, _, _)
TotalCost(matrix, route, k) ==
    IF k >= Len(route) THEN CostZero
    ELSE LET c == matrix[<<route[k], route[k + 1]>>]
             rest == TotalCost(matrix, route, k + 1)
         IN  IF c.k = "inf" \/ rest.k = "inf" THEN CostInf
             ELSE IF k + 1 >= Len(route) THEN c
             ELSE LET t == FracAdd(c, rest) IN [k |-> "num", num |-> t.num, den |-> t.den]

\* main.py:214-230: the nodes from routing.Start(0) up to the end, then the end node
DecodeSolution(matrix, solution) ==
    [found |-> TRUE, route_indices |-> solution, total_cost |-> TotalCost(matrix, solution, 1)]

\* main.py:208-210
NoSolution == [found |-> FALSE, route_indices |-> <<>>, total_cost |-> CostZero]

\* the solver's failure not looked at
SolverFailedIgnored(result) == FALSE

\* main.py:392: if not ortools_result
SolverFailed(result) == ~result.found

\* any list of node indices of at most n entries: what a solver that does not keep
\* the pinned depots could hand back (main.py:408-410)
AnyIndexLists(n) == UNION {[1 .. k -> 0 .. n - 1] : k \in 0 .. n}

\* main.py:170-230 and 390-393, the solver giving one of the routes or none
SolveWith(routes) ==
    /\ pc = "solve"
    /\ scaled_cost_matrix' = [p \in DOMAIN cost_matrix |-> ScaledCost(cost_matrix[p])]
    /\ calls' = [calls EXCEPT !.solver = @ + 1]
    /\ \E result \in {NoSolution} \cup {DecodeSolution(cost_matrix, s) : s \in routes} :
          /\ ortools_result' = result
          /\ IF SolverFailed(result)
             THEN /\ response' = [NoResponse EXCEPT !.status = 500]
                  /\ pc' = "done"
             ELSE /\ pc' = "assemble"
                  /\ UNCHANGED response
    /\ UNCHANGED <<request, model_loaded, pos, all_segments_data_cache,
                   max_duration_for_normalization, max_distance_for_normalization,
                   weights, cost_matrix, last, faults>>

\* main.py:170-230 and 390-393
Solve == SolveWith(SolverSolutions(NumPoints(request), 0, NumPoints(request) - 1))

\* main.py:390-393 with a solver whose index list is not trusted
SolveUnchecked == SolveWith(AnyIndexLists(NumPoints(request)))

(* ---------------------- 7.4 the response is built ---------------------- *)
\* the end of the list not looked at
RouteIndicesStartOnly(optimized_route_indices, num_points) ==
    IF \/ optimized_route_indices = <<>>
       \/ optimized_route_indices[1] # 0
    THEN [k \in 1 .. num_points |-> k - 1]
    ELSE optimized_route_indices

\* main.py:410-413: the solver's order, or 0, 1, .., num_points - 1
RouteIndices(optimized_route_indices, num_points) ==
    IF \/ optimized_route_indices = <<>>
       \/ optimized_route_indices[1] # 0
       \/ optimized_route_indices[Len(optimized_route_indices)] # num_points - 1
    THEN [k \in 1 .. num_points |-> k - 1]
    ELSE optimized_route_indices

\* the range test with its lower bound made strict
ValidIndexStrict(idx, num_points) == 0 < idx /\ idx < num_points

\* main.py:418: 0 <= idx < len(all_points_details)
ValidIndex(idx, num_points) == 0 <= idx /\ idx < num_points

\* main.py:417-428
RECURSIVE RoutePoints(_, _)
RoutePoints(req, indices) ==
    IF indices = <<>> THEN <<>>
    ELSE IF ValidIndex(Head(indices), NumPoints(req))
    THEN <<[type |-> AllPointsDetails(req)[Head(indices)].type,
            id |-> AllPointsDetails(req)[Head(indices)].id,
            loc |-> AllPointsDetails(req)[Head(indices)].loc]>>
         \o RoutePoints(req, Tail(indices))
    ELSE RoutePoints(req, Tail(indices))

\* the segment loop stopping one pair early
SegmentRangeShort(len) == 1 .. len - 2

\* main.py:471: range(len(optimized_route_indices) - 1), from 1 here
SegmentRange(len) == 1 .. len - 1

\* an entry holding the sentinel taken as no data
SegmentValidBelowSentinel(req, cache, from_idx, to_idx) ==
    /\ CacheKey(req, from_idx, to_idx) \in DOMAIN cache
    /\ cache[CacheKey(req, from_idx, to_idx)].duration < SENTINEL
    /\ cache[CacheKey(req, from_idx, to_idx)].distance < SENTINEL

\* main.py:479-480: a cache entry is there (its values, sanitised, are never inf)
SegmentValid(req, cache, from_idx, to_idx) == CacheKey(req, from_idx, to_idx) \in DOMAIN cache

\* main.py:487-504
SegmentDetail(req, cache, from_idx, to_idx) ==
    LET valid == SegmentValid(req, cache, from_idx, to_idx)
        data == cache[CacheKey(req, from_idx, to_idx)]
    IN  [from_point_id |-> AllPointsDetails(req)[from_idx].id,
         to_point_id |-> AllPointsDetails(req)[to_idx].id,
         from_type |-> AllPointsDetails(req)[from_idx].type,
         to_type |-> AllPointsDetails(req)[to_idx].type,
         duration_seconds |-> IF valid THEN Num(data.duration) ELSE Inf,
         distance_meters |-> IF valid THEN Num(data.distance) ELSE Inf]

SegmentsDetails(req, cache, indices) ==
    [k \in SegmentRange(Len(indices)) |->
        SegmentDetail(req, cache, indices[k], indices[k + 1])]

\* main.py:484-485: the running totals, over the segments with valid data
RECURSIVE SegmentTotal(_, _, _, _, _)
SegmentTotal(req, cache, indices, field, ks) ==
    IF ks = {} THEN BigZero
    ELSE LET k == CHOOSE x \in ks : TRUE
             rest == SegmentTotal(req, cache, indices, field, ks \ {k})
         IN  IF SegmentValid(req, cache, indices[k], indices[k + 1])
             THEN BigAdd(BigOf(IF field = "distance"
                               THEN cache[CacheKey(req, indices[k], indices[k + 1])].distance
                               ELSE cache[CacheKey(req, indices[k], indices[k + 1])].duration),
                         rest)
             ELSE rest

\* the answers of the provider call for the whole route (main.py:435-440)
FullRouteAnswers(req) == {MapboxNone, MapboxRoute(req.current, req.warehouse)}

\* main.py:434-465: geometry and legs are there when the call was made and gave a route
FullRouteGeometry(points, full_route_mapbox_data) ==
    Len(points) > 1 /\ full_route_mapbox_data.route

\* a failed call for the whole route ending the request
RouteResponseEscalating(req, cache, indices, full_route_mapbox_data) ==
    IF full_route_mapbox_data.route
    THEN [status |-> 200,
          optimized_route |-> RoutePoints(req, indices),
          total_predicted_time_seconds |->
              SegmentTotal(req, cache, indices, "duration", SegmentRange(Len(indices))),
          total_distance_meters |->
              SegmentTotal(req, cache, indices, "distance", SegmentRange(Len(indices))),
          has_segments |-> TRUE,
          segments_details |-> SegmentsDetails(req, cache, indices),
          full_route_geometry |-> TRUE,
          full_route_legs |-> TRUE]
    ELSE [NoResponse EXCEPT !.status = 500]

\* main.py:398-518: the response for a route and the answer of the whole-route call
RouteResponse(req, cache, indices, full_route_mapbox_data) ==
    [status |-> 200,
     optimized_route |-> RoutePoints(req, indices),
     total_predicted_time_seconds |->
         SegmentTotal(req, cache, indices, "duration", SegmentRange(Len(indices))),
     total_distance_meters |->
         SegmentTotal(req, cache, indices, "distance", SegmentRange(Len(indices))),
     has_segments |-> TRUE,
     segments_details |-> SegmentsDetails(req, cache, indices),
     full_route_geometry |-> FullRouteGeometry(RoutePoints(req, indices), full_route_mapbox_data),
     full_route_legs |-> FullRouteGeometry(RoutePoints(req, indices), full_route_mapbox_data)]

\* main.py:395-518
Assemble ==
    /\ pc = "assemble"
    /\ LET indices == RouteIndices(ortools_result.route_indices, NumPoints(request))
           points == RoutePoints(request, indices)
       IN  \E full_route_mapbox_data \in FullRouteAnswers(request) :
              /\ response' = RouteResponse(request, all_segments_data_cache, indices,
                                           full_route_mapbox_data)
              /\ calls' = [calls EXCEPT
                              !.geometry = @ + (IF Len(points) > 1 THEN 1 ELSE 0),
                              !.geometry_failed =
                                  Len(points) > 1 /\ ~full_route_mapbox_data.route]
    /\ pc' = "done"
    /\ UNCHANGED <<request, model_loaded, pos, all_segments_data_cache,
                   max_duration_for_normalization, max_distance_for_normalization,
                   weights, cost_matrix, scaled_cost_matrix, ortools_result, last, faults>>

Next == Start \/ Collect \/ BuildMatrix \/ Solve \/ Assemble

Spec == Init /\ [][Next]_vars

\* the request with a solver whose index list may be anything, the provider and the
\* predictor answering as expected
NextUnchecked == Start \/ CollectNominal \/ BuildMatrix \/ SolveUnchecked \/ Assemble

SpecUnchecked == Init /\ [][NextUnchecked]_vars

(* ------------- the scaling of solve_tsp_with_ortools alone ------------- *)
\* cost matrices as a caller of solve_tsp_with_ortools may pass them (main.py:170):
\* non-negative costs, small ones, ones around 1, 1000 and the clamp at 10^6, and +inf
CostInputs ==
    {[k |-> "num", num |-> BigOf(n), den |-> BigOf(d)] :
        n \in 0 .. MaxScaleNum, d \in 1 .. MaxScaleDen}
    \cup {[k |-> "num", num |-> BigOf(n), den |-> BigOf(d)] :
             n \in {999, 1000, 1001, 999999, 1000000, 1000001, 1999999, 2000000},
             d \in {1, 2}}
    \cup {CostInf}

InitScale ==
    /\ pc = "scale"
    /\ request = CHOOSE r \in Requests : r.orders = <<>>
    /\ model_loaded = FALSE
    /\ pos = 0
    /\ all_segments_data_cache = <<>>
    /\ max_duration_for_normalization = 0
    /\ max_distance_for_normalization = 0
    /\ weights = [time |-> 0, distance |-> 0, total |-> 0]
    /\ \E c \in CostInputs, d \in CostInputs :
          cost_matrix = [p \in (0 .. 1) \X (0 .. 1) |->
                            IF p = <<0, 1>> THEN c ELSE IF p = <<1, 0>> THEN d ELSE CostZero]
    /\ scaled_cost_matrix = <<>>
    /\ ortools_result = [found |-> FALSE, route_indices |-> <<>>, total_cost |-> BigZero]
    /\ response = NoResponse
    /\ calls = NoCalls
    /\ last = NoLast
    /\ faults = 0

\* main.py:183-187
ScaleCosts ==
    /\ pc = "scale"
    /\ scaled_cost_matrix' = [p \in DOMAIN cost_matrix |-> ScaledCost(cost_matrix[p])]
    /\ pc' = "scaled"
    /\ UNCHANGED <<request, model_loaded, pos, all_segments_data_cache,
                   max_duration_for_normalization, max_distance_for_normalization,
                   weights, cost_matrix, ortools_result, response, calls, last, faults>>

SpecScale == InitScale /\ [][ScaleCosts]_vars

(* ============================== claims ================================ *)
Returned == pc = "done" /\ response.status = 200
OrderIds == 1 .. Len(request.orders)
RouteLen == Len(response.optimized_route)
\* the estimate collection has run to its end
Collected == pc \in {"build", "solve", "assemble"} \/ (pc = "done" /\ response.status # 400)
\* the entry stored by the latest collection step
LastKey == CacheKey(request, last.i, last.j)
LastStored == all_segments_data_cache[LastKey]

\* C1: a returned route starts at the current location, ends at the warehouse,
\* and holds every order of the request exactly once.
C1_RouteEndpointsAndOrders ==
    (Returned /\ NumPoints(request) >= 2) =>
        /\ RouteLen >= 2
        /\ response.optimized_route[1].type = "current_location"
        /\ response.optimized_route[1].loc = request.current
        /\ response.optimized_route[RouteLen].type = "warehouse"
        /\ response.optimized_route[RouteLen].loc = request.warehouse
        /\ \A o \in OrderIds :
              Cardinality({k \in 1 .. RouteLen :
                              /\ response.optimized_route[k].type = "order"
                              /\ response.optimized_route[k].id = o}) = 1

\* a route with an order in it has been returned
C1_Witness == Returned /\ Len(request.orders) = 1 /\ RouteLen = 3

\* C2 (as claimed): with zero orders (and weights that are not both zero) the solver
\* is never invoked and the response is the direct route [current_location,
\* warehouse] with total time 0 and total distance 0.
C2_ZeroOrdersDirect ==
    (Len(request.orders) = 0 /\ request.weight_time + request.weight_distance > 0) =>
        /\ calls.solver = 0
        /\ pc = "done" =>
              /\ response.status = 200
              /\ RouteLen = 2
              /\ response.total_predicted_time_seconds = BigZero
              /\ response.total_distance_meters = BigZero

\* the provider returned no route for every pair leading into the warehouse
WarehouseCutOff ==
    /\ Collected
    /\ \A i \in 0 .. NumPoints(request) - 2 : <<i, NumPoints(request) - 1>> \in calls.failed

\* C3 (as claimed): when the provider fails for every pair leading into the
\* warehouse, the request ends in the optimisation failure and no route is returned
\* (stated for requests with at least one order).
C3_UnreachableWarehouseFails ==
    (pc = "done" /\ Len(request.orders) >= 1 /\ WarehouseCutOff) =>
        /\ response.status = 500
        /\ response.optimized_route = <<>>

\* C4: a request with both weights zero is rejected (400) before any call to the
\* provider, the predictor or the solver; for an accepted request the normalised
\* weights are non-negative and sum to 1.
C4_ZeroWeightsRejected ==
    /\ (pc # "start" /\ request.weight_time = 0 /\ request.weight_distance = 0) =>
          /\ pc = "done"
          /\ response.status = 400
          /\ calls = NoCalls
    /\ response.status = 400 => request.weight_time + request.weight_distance = 0
    /\ (pc # "start" /\ response.status # 400) =>
          /\ BigLt(BigZero, weights.time.den) /\ BigLt(BigZero, weights.distance.den)
          /\ BigLeq(BigZero, weights.time.num) /\ BigLeq(BigZero, weights.distance.num)
          /\ FracIsOne(FracAdd(weights.time, weights.distance))

\* a request has been rejected for its weights
C4_Witness == pc = "done" /\ response.status = 400 /\ Len(request.orders) = 1

\* a value no estimate may keep: +inf, NaN or negative
Unusable(x) == x.k # "num" \/ x.v < 0

BadPrediction ==
    /\ last.i >= 0
    /\ last.ml.called /\ ~last.ml.raised
    /\ Unusable(last.ml.value) /\ last.ml.value.k # "inf"

\* C6 (as claimed): when the predictor returns a negative or NaN value for a pair,
\* the duration stored for the pair is the provider-reported duration (stated for
\* pairs the provider answered with a usable duration).
C6_FallsBackToProvider ==
    (BadPrediction /\ last.mapbox_data.route /\ ~Unusable(last.mapbox_data.duration)) =>
        LastStored.duration = last.mapbox_data.duration.v

\* C6 (amended): when the predictor returns a negative or NaN value for a pair, the
\* duration stored for the pair is 0, whatever the provider reported; it is never
\* negative or NaN.
C6_BadPredictionStoredAsZero == BadPrediction => LastStored.duration = 0

\* the predictor returned NaN for a pair whose provider duration is positive
C6_Witness ==
    /\ BadPrediction
    /\ last.ml.value = NaN
    /\ last.mapbox_data.route
    /\ Lt(Num(0), last.mapbox_data.duration)

\* the cost matrix has been built
MatrixBuilt == pc \in {"solve", "assemble"} \/ (pc = "done" /\ calls.solver > 0)

\* C7: in a built cost matrix every diagonal entry is 0 and every finite
\* off-diagonal entry lies in [0, 1]; the normalised distance and duration of every
\* pair lie in [0, 1], the maxima being >= 1.
C7_CostsInUnitInterval ==
    MatrixBuilt =>
        /\ max_distance_for_normalization >= 1
        /\ max_duration_for_normalization >= 1
        /\ \A i \in 0 .. NumPoints(request) - 1 : FracIsZero(cost_matrix[<<i, i>>])
        /\ \A p \in OrderedPairs(NumPoints(request)) :
              /\ cost_matrix[p].k = "num" => FracInUnit(cost_matrix[p])
              /\ LET e == all_segments_data_cache[CacheKey(request, p[1], p[2])]
                 IN  /\ 0 <= e.distance /\ e.distance <= max_distance_for_normalization
                     /\ 0 <= e.duration /\ e.duration <= max_duration_for_normalization

\* a matrix with an entry strictly between 0 and 1 and an entry equal to 1
C7_Witness ==
    /\ pc = "solve"
    /\ \E p \in OrderedPairs(NumPoints(request)) :
          /\ BigLt(BigZero, cost_matrix[p].num)
          /\ BigLt(cost_matrix[p].num, cost_matrix[p].den)
    /\ \E p \in OrderedPairs(NumPoints(request)) : FracIsOne(cost_matrix[p])

\* the sum of one metric over segment records
RECURSIVE SumOfSegments(_, _)
SumOfSegments(segments, field) ==
    IF segments = <<>> THEN BigZero
    ELSE BigAdd(BigOf(IF field = "distance" THEN Head(segments).distance_meters.v
                      ELSE Head(segments).duration_seconds.v),
                SumOfSegments(Tail(segments), field))

\* C8: a returned route has one segment record per consecutive pair of route
\* points, each carrying the raw stored distance and duration of its pair, and the
\* totals are the sums over the segments; with one order the route is
\* [current_location, order, warehouse].
C8_SegmentsAndTotals ==
    (Returned /\ response.has_segments) =>
        /\ Len(response.segments_details) = RouteLen - 1
        /\ \A k \in 1 .. Len(response.segments_details) :
              LET seg == response.segments_details[k]
                  e == all_segments_data_cache[<<response.optimized_route[k].loc,
                                                 response.optimized_route[k + 1].loc>>]
              IN  /\ seg.from_point_id = response.optimized_route[k].id
                  /\ seg.to_point_id = response.optimized_route[k + 1].id
                  /\ seg.distance_meters = Num(e.distance)
                  /\ seg.duration_seconds = Num(e.duration)
        /\ response.total_distance_meters = SumOfSegments(response.segments_details, "distance")
        /\ response.total_predicted_time_seconds =
              SumOfSegments(response.segments_details, "duration")
        /\ Len(request.orders) = 1 =>
              /\ RouteLen = 3
              /\ response.optimized_route[1].type = "current_location"
              /\ response.optimized_route[2].type = "order"
              /\ response.optimized_route[3].type = "warehouse"

\* one order, weights (0.5, 0.5), every estimate as the provider gave it: the route
\* is returned with non-zero totals
C8_Witness ==
    /\ Returned
    /\ Len(request.orders) = 1
    /\ 2 * request.weight_time = WeightDen /\ 2 * request.weight_distance = WeightDen
    /\ faults = 0
    /\ ~model_loaded
    /\ request.current # request.orders[1] /\ request.orders[1] # request.warehouse
    /\ response.total_distance_meters =
          BigOf(ProviderDistance(request.current, request.orders[1])
                + ProviderDistance(request.orders[1], request.warehouse))

\* C9: when the solver reports no solution the request ends in the optimisation
\* failure (500), which is not the rejection (400) and carries no route; an outcome
\* is a full route (200) or a failure without any route.
C9_AllOrNothing ==
    /\ (calls.solver > 0 /\ ~ortools_result.found) =>
          /\ pc = "done"
          /\ response.status = 500
    /\ response.status = 500 => (calls.solver > 0 /\ ~ortools_result.found)
    /\ response.status = 400 => calls.solver = 0
    /\ pc = "done" => response.status \in {200, 400, 500}
    /\ response.status \in {0, 400, 500} =>
          /\ response.optimized_route = <<>>
          /\ response.segments_details = <<>>
    /\ response.status = 200 =>
          /\ RouteLen = NumPoints(request)
          /\ ortools_result.found

\* the solver found nothing and the request ended in the failure
C9_Witness == pc = "done" /\ response.status = 500 /\ ~ortools_result.found /\ calls.solver = 1

\* how often the provider was called for a pair during estimate collection
CallsFor(pair) == Cardinality({k \in 1 .. Len(calls.mapbox) : calls.mapbox[k] = pair})

\* the latest collection step got no route from the provider
LastFailed == last.i >= 0 /\ ~last.mapbox_data.route

\* what the latest step stores as duration when the predictor gave a value
ClampedPrediction == IF Unusable(last.ml.value) THEN 0 ELSE last.ml.value.v

\* C10 (as claimed): a failed provider call sets the stored estimate of its pair to
\* the sentinel, distance and duration, and leaves the stored estimate of every
\* other pair of points as it was.
C10_FailureStoresSentinelOnly ==
    LastFailed =>
        /\ LastStored = [distance |-> SENTINEL, duration |-> SENTINEL]
        /\ \A p \in OrderedPairs(NumPoints(request)) :
              (p # <<last.i, last.j>> /\ CacheKey(request, p[1], p[2]) \in DOMAIN last.before)
                 => all_segments_data_cache[CacheKey(request, p[1], p[2])]
                       = last.before[CacheKey(request, p[1], p[2])]

\* C10 (amended): during estimate collection the provider is called exactly once for
\* each ordered pair (no retry) and a failed call never ends the request; the failed
\* call changes only the entry stored under its pair's coordinates: the distance
\* becomes the sentinel, the duration becomes the sentinel unless the loaded
\* predictor returns a value for the pair (then that value, clamped at 0, is
\* stored); entries under other coordinates stay as they were.
C10_FailureIsLocal ==
    /\ \A p \in OrderedPairs(NumPoints(request)) :
          /\ CallsFor(p) <= 1
          /\ Collected => CallsFor(p) = 1
    /\ Len(calls.mapbox) = Cardinality({p \in OrderedPairs(NumPoints(request)) : CallsFor(p) = 1})
    /\ (pc = "done" /\ calls.failed # {}) =>
          /\ Collected
          /\ calls.solver = 1
          /\ response.status = 500 => ~ortools_result.found
    /\ last.i >= 0 =>
          /\ DOMAIN all_segments_data_cache = DOMAIN last.before \cup {LastKey}
          /\ \A key \in DOMAIN last.before :
                key # LastKey => all_segments_data_cache[key] = last.before[key]
    /\ LastFailed =>
          /\ LastStored.distance = SENTINEL
          /\ (~last.ml.called \/ last.ml.raised) => LastStored.duration = SENTINEL
          /\ (last.ml.called /\ ~last.ml.raised) => LastStored.duration = ClampedPrediction

\* a provider call failed after other pairs had been stored, and the request went on
C10_Witness ==
    /\ LastFailed
    /\ DOMAIN last.before # {}
    /\ LastKey \notin DOMAIN last.before
    /\ pc = "done" /\ response.status = 200

\* the response Assemble gives for an answer of the whole-route call
ResponseFor(full_route_mapbox_data) ==
    RouteResponse(request, all_segments_data_cache,
                  RouteIndices(ortools_result.route_indices, NumPoints(request)),
                  full_route_mapbox_data)

\* C11: the route, the segments and the two totals of a response are the same
\* whether the whole-route provider call succeeds or fails; on failure the request
\* still succeeds (200) and only full_route_geometry and full_route_legs are absent.
C11_GeometryFailureDegrades ==
    /\ pc = "assemble" =>
          \A ok \in FullRouteAnswers(request) \ {MapboxNone} :
             /\ ResponseFor(MapboxNone).status = 200
             /\ ResponseFor(ok).status = 200
             /\ ResponseFor(MapboxNone) =
                   [ResponseFor(ok) EXCEPT !.full_route_geometry = FALSE,
                                           !.full_route_legs = FALSE]
    /\ (pc = "done" /\ calls.geometry > 0) =>
          /\ response.status = 200
          /\ RouteLen = NumPoints(request)
          /\ Len(response.segments_details) = RouteLen - 1
          /\ response.full_route_geometry = ~calls.geometry_failed
          /\ response.full_route_legs = ~calls.geometry_failed

\* the whole-route call failed and the route was returned with non-zero totals
C11_Witness ==
    /\ Returned
    /\ calls.geometry = 1 /\ calls.geometry_failed
    /\ Len(request.orders) = 1
    /\ ~response.full_route_geometry /\ ~response.full_route_legs
    /\ response.total_distance_meters # BigZero

\* the ids of the points of the returned route
RouteIds == [k \in 1 .. RouteLen |-> response.optimized_route[k].id]

\* the ids of the points at the indices of a list
IdsAt(indices) == [k \in 1 .. Len(indices) |-> AllPointsDetails(request)[indices[k]].id]

\* the solver's index list is empty, or does not start at 0, or does not end at
\* num_points - 1
Rejected(indices) ==
    \/ indices = <<>>
    \/ indices[1] # 0
    \/ indices[Len(indices)] # NumPoints(request) - 1

\* C12: when the solver's index list is empty, does not start with 0 or does not end
\* with num_points - 1, the returned route is the points in the order 0, 1, ..,
\* num_points - 1; otherwise it is the points at the solver's indices, in its order.
C12_FallbackToIdentity ==
    Returned =>
        IF Rejected(ortools_result.route_indices)
        THEN RouteIds = IdsAt([k \in 1 .. NumPoints(request) |-> k - 1])
        ELSE RouteIds = IdsAt(ortools_result.route_indices)

\* a list that starts at 0 and ends elsewhere was replaced by 0, 1, 2
C12_Witness ==
    /\ Returned
    /\ Len(request.orders) = 1
    /\ Len(ortools_result.route_indices) = 3
    /\ ortools_result.route_indices[1] = 0
    /\ ortools_result.route_indices[3] = 1
    /\ RouteIds = IdsAt(<<0, 1, 2>>)

\* q is the integer part of min(MAX_ORTOOLS_COST, cost * INTEGER_SCALE_FACTOR)
IsScaledPart(cost, q) ==
    LET x == BigScale(cost.num, INTEGER_SCALE_FACTOR)
    IN  IF BigLeq(BigScale(cost.den, MAX_ORTOOLS_COST), x)
        THEN q = MAX_ORTOOLS_COST
        ELSE /\ BigLeq(BigScale(cost.den, q), x)
             /\ BigLt(x, BigScale(cost.den, q + 1))

\* C13: every entry of the scaled matrix is an integer in 0 .. 1_000_000_000; for a
\* finite cost it is the integer part of min(1_000_000_000, cost * 1000), and for
\* +infinity it is 1_000_000_000.
C13_ScaledEntries ==
    scaled_cost_matrix # <<>> =>
        \A p \in DOMAIN scaled_cost_matrix :
            /\ scaled_cost_matrix[p] \in 0 .. MAX_ORTOOLS_COST
            /\ IF cost_matrix[p].k = "inf"
               THEN scaled_cost_matrix[p] = MAX_ORTOOLS_COST
               ELSE IsScaledPart(cost_matrix[p], scaled_cost_matrix[p])

\* +infinity and 2/3 were scaled, to the bound and to 666
C13_Witness ==
    /\ pc = "scaled"
    /\ cost_matrix[<<0, 1>>].k = "inf"
    /\ scaled_cost_matrix[<<0, 1>>] = MAX_ORTOOLS_COST
    /\ cost_matrix[<<1, 0>>] = [k |-> "num", num |-> BigOf(2), den |-> BigOf(3)]
    /\ scaled_cost_matrix[<<1, 0>>] = 666

\* a cost above 10^6 was clamped and 999999.5 was not
C13_WitnessClamp ==
    /\ pc = "scaled"
    /\ cost_matrix[<<0, 1>>] = [k |-> "num", num |-> BigOf(2000000), den |-> BigOf(1)]
    /\ scaled_cost_matrix[<<0, 1>>] = MAX_ORTOOLS_COST
    /\ cost_matrix[<<1, 0>>] = [k |-> "num", num |-> BigOf(1999999), den |-> BigOf(2)]
    /\ scaled_cost_matrix[<<1, 0>>] = 999999500

====
